---- MODULE Spec2Model ----
(***************************************************************************)
(* seq-events: the two streaming event readers, FastaReader                *)
(* (src/src/fasta.rs) and FastqReader (src/src/fastq.rs), each a loop      *)
(* around a std::io::BufReader.  One action of the model is one iteration  *)
(* of next_event's `loop`: consume the pending bytes, fill_buf, then the   *)
(* arm of `match self.state`.  An iteration either returns (the pull ends  *)
(* and its result is appended to `events`) or executes `continue` (the     *)
(* pull stays in the loop, pc = "loop").                                   *)
(***************************************************************************)
EXTENDS Integers, Sequences, FiniteSets, TLC

\* ------------------------------------------------------------------ bytes
LF == 10
CR == 13
GT == 62
AT == 64
PLUS == 43
\* a content byte ('A'), used for identifiers, bases and quality scores
ByteA == 65

Bytes == {LF, CR, GT, AT, PLUS, ByteA}

\* ----------------------------------------------------------------- bounds
\* buffer capacities 1..MaxCap are tried, and one larger than every input
MaxCap == 3
\* every byte string of at most MaxFastaLen bytes is a FASTA input
MaxFastaLen == 5
\* every byte string of at most MaxFastqLen bytes is a FASTQ input
MaxFastqLen == 4
\* pulls a caller still makes after a pull returned end of stream or an error
MaxRetries == 2
\* failures the byte source may report
MaxIoFailures == 1
\* every byte string of at most MaxIoLen bytes is an input of the failing source
MaxIoLen == 3

\* a capacity larger than every input of the model
BigCap == 40

Min(a, b) == IF a < b THEN a ELSE b

Strings(S, n) == UNION {[1..k -> S] : k \in 0..n}

RECURSIVE Concat(_)
Concat(ss) == IF ss = <<>> THEN <<>> ELSE Head(ss) \o Concat(Tail(ss))

Prefixes(s) == {SubSeq(s, 1, k) : k \in 0..Len(s)}

\* ------------------------------------------------------------- memchr
\* memchr / memchr2 / memchr3 / Iterator::position: the 0-based index of the
\* first byte of buf that lies in S, or -1 for None.
Memchr(S, buf) ==
    IF \E i \in 1..Len(buf) : buf[i] \in S
    THEN (CHOOSE i \in 1..Len(buf) : buf[i] \in S /\ \A j \in 1..(i-1) : buf[j] \notin S) - 1
    ELSE -1

\* ------------------------------------------------------------- results
Continue == [kind |-> "Continue", payload |-> <<>>]
Ev(k, p) == [kind |-> k, payload |-> p]
EndOfStream == Ev("End", <<>>)
IoError == Ev("Io", <<>>)
Terminal == {"End", "InvalidFormat", "Io"}
Slice(buf, n) == SubSeq(buf, 1, n)

\* ------------------------------------------------------------ BufReader
\* A reader is the record of the struct's fields plus the BufReader's
\* cursor: bytes input[pos+1 .. filled] are buffered and not yet consumed.
NewReader ==
    [pos |-> 0, filled |-> 0, pending_consume |-> 0, state |-> "Start",
     seq_len |-> 0, qual_len |-> 0, first_record |-> TRUE]

\* if self.pending_consume > 0 { self.reader.consume(..); self.pending_consume = 0 }
ConsumePending(r) ==
    IF r.pending_consume > 0
    THEN [r EXCEPT !.pos = Min(r.pos + r.pending_consume, r.filled),
                   !.pending_consume = 0]
    ELSE r

\* BufReader::fill_buf over a source that delivers as much as fits (Cursor,
\* File): an empty buffer is refilled with up to `c` bytes, a non-empty one
\* is returned as it is.
FillBuf(inp, c, r) ==
    IF r.pos < r.filled THEN r
    ELSE [r EXCEPT !.filled = r.pos + Min(c, Len(inp) - r.pos)]

Window(inp, r) == SubSeq(inp, r.pos + 1, r.filled)

\* ------------------------------------------------------------ FastaReader
\* FastaStart without the marker check: any first byte that is not a line
\* terminator opens a record
FastaStartAnyMarker(buf, r) ==
    LET first_non_ws == Memchr(Bytes \ {LF, CR}, buf)
    IN  IF first_non_ws = 0
        THEN [r |-> [r EXCEPT !.state = "Id", !.pending_consume = 1],
              out |-> Ev("StartRecord", <<>>)]
        ELSE IF first_non_ws > 0
        THEN [r |-> [r EXCEPT !.pending_consume = first_non_ws], out |-> Continue]
        ELSE [r |-> [r EXCEPT !.pending_consume = Len(buf)], out |-> Continue]

FastaStart(buf, r) ==
    LET first_non_ws == Memchr(Bytes \ {LF, CR}, buf)
    IN  IF first_non_ws = 0
        THEN IF buf[1] = GT
             THEN [r |-> [r EXCEPT !.state = "Id", !.pending_consume = 1],
                   out |-> Ev("StartRecord", <<>>)]
             ELSE [r |-> r, out |-> Ev("InvalidFormat", <<buf[1]>>)]
        ELSE IF first_non_ws > 0
        THEN [r |-> [r EXCEPT !.pending_consume = first_non_ws], out |-> Continue]
        ELSE [r |-> [r EXCEPT !.pending_consume = Len(buf)], out |-> Continue]

\* FastaId returning the identifier slice also when it is empty (no `end > 0` test)
FastaIdEmitsEmpty(buf, r) ==
    LET newline_pos == Memchr({LF}, buf)
        end == IF newline_pos > 0 /\ buf[newline_pos] = CR
               THEN newline_pos - 1 ELSE newline_pos
    IN  IF newline_pos >= 0
        THEN [r |-> [r EXCEPT !.state = "Sequence", !.pending_consume = newline_pos + 1],
              out |-> Ev("IdChunk", Slice(buf, end))]
        ELSE [r |-> [r EXCEPT !.pending_consume = Len(buf)],
              out |-> Ev("IdChunk", buf)]

\* FastaId with the identifier slice one byte too long (it takes the LF)
FastaIdOffByOne(buf, r) ==
    LET newline_pos == Memchr({LF}, buf)
    IN  IF newline_pos >= 0
        THEN [r |-> [r EXCEPT !.state = "Sequence", !.pending_consume = newline_pos + 1],
              out |-> Ev("IdChunk", Slice(buf, newline_pos + 1))]
        ELSE [r |-> [r EXCEPT !.pending_consume = Len(buf)],
              out |-> Ev("IdChunk", buf)]

FastaId(buf, r) ==
    LET newline_pos == Memchr({LF}, buf)
        end == IF newline_pos > 0 /\ buf[newline_pos] = CR
               THEN newline_pos - 1 ELSE newline_pos
    IN  IF newline_pos >= 0
        THEN [r |-> [r EXCEPT !.state = "Sequence", !.pending_consume = newline_pos + 1],
              out |-> IF end > 0 THEN Ev("IdChunk", Slice(buf, end)) ELSE Continue]
        ELSE [r |-> [r EXCEPT !.pending_consume = Len(buf)],
              out |-> Ev("IdChunk", buf)]

\* FastaSequence taking '>' for a marker only as the first byte of the window
\* (the chunk scan is memchr2 for LF and CR, not memchr3)
FastaSequenceLineStartMarker(buf, r) ==
    LET first_byte == buf[1]
        found == Memchr({LF, CR}, buf)
        chunk_end == IF found >= 0 THEN found ELSE Len(buf)
    IN  IF first_byte = LF
        THEN [r |-> [r EXCEPT !.pending_consume = 1], out |-> Continue]
        ELSE IF first_byte = CR
        THEN [r |-> [r EXCEPT !.pending_consume =
                        IF Len(buf) > 1 /\ buf[2] = LF THEN 2 ELSE 1],
              out |-> Continue]
        ELSE IF first_byte = GT
        THEN [r |-> [r EXCEPT !.state = "Id", !.pending_consume = 1],
              out |-> Ev("StartRecord", <<>>)]
        ELSE IF chunk_end = 0
        THEN [r |-> [r EXCEPT !.pending_consume = 1], out |-> Continue]
        ELSE [r |-> [r EXCEPT !.pending_consume = chunk_end],
              out |-> Ev("SeqChunk", Slice(buf, chunk_end))]

\* FastaSequence scanning for LF and '>' only (memchr2 in place of memchr3)
FastaSequenceNoCr(buf, r) ==
    LET first_byte == buf[1]
        found == Memchr({LF, GT}, buf)
        chunk_end == IF found >= 0 THEN found ELSE Len(buf)
    IN  IF first_byte = LF
        THEN [r |-> [r EXCEPT !.pending_consume = 1], out |-> Continue]
        ELSE IF first_byte = CR
        THEN [r |-> [r EXCEPT !.pending_consume =
                        IF Len(buf) > 1 /\ buf[2] = LF THEN 2 ELSE 1],
              out |-> Continue]
        ELSE IF first_byte = GT
        THEN [r |-> [r EXCEPT !.state = "Id", !.pending_consume = 1],
              out |-> Ev("StartRecord", <<>>)]
        ELSE IF chunk_end = 0
        THEN [r |-> [r EXCEPT !.pending_consume = 1], out |-> Continue]
        ELSE [r |-> [r EXCEPT !.pending_consume = chunk_end],
              out |-> Ev("SeqChunk", Slice(buf, chunk_end))]

FastaSequence(buf, r) ==
    LET first_byte == buf[1]
        found == Memchr({LF, CR, GT}, buf)
        chunk_end == IF found >= 0 THEN found ELSE Len(buf)
    IN  IF first_byte = LF
        THEN [r |-> [r EXCEPT !.pending_consume = 1], out |-> Continue]
        ELSE IF first_byte = CR
        THEN [r |-> [r EXCEPT !.pending_consume =
                        IF Len(buf) > 1 /\ buf[2] = LF THEN 2 ELSE 1],
              out |-> Continue]
        ELSE IF first_byte = GT
        THEN [r |-> [r EXCEPT !.state = "Id", !.pending_consume = 1],
              out |-> Ev("StartRecord", <<>>)]
        ELSE IF chunk_end = 0
        THEN [r |-> [r EXCEPT !.pending_consume = 1], out |-> Continue]
        ELSE [r |-> [r EXCEPT !.pending_consume = chunk_end],
              out |-> Ev("SeqChunk", Slice(buf, chunk_end))]

\* one iteration of FastaReader::next_event's loop, the source not failing
FastaIter(inp, c, r0) ==
    LET r == FillBuf(inp, c, ConsumePending(r0))
        buf == Window(inp, r)
    IN  IF buf = <<>> THEN [r |-> r, out |-> EndOfStream]
        ELSE IF r.state = "Start" THEN FastaStart(buf, r)
        ELSE IF r.state = "Id" THEN FastaId(buf, r)
        ELSE FastaSequence(buf, r)

\* ------------------------------------------------------------ FastqReader
\* FastqStart scheduling the offending byte for consumption when it returns
\* InvalidFormat
FastqStartSkipsInvalid(buf, r) ==
    LET first_non_ws == Memchr(Bytes \ {LF, CR}, buf)
        is_first == r.first_record
    IN  IF first_non_ws = 0
        THEN IF buf[1] = AT
             THEN [r |-> [r EXCEPT !.first_record = FALSE, !.state = "Id",
                                   !.pending_consume = 1, !.seq_len = 0, !.qual_len = 0],
                   out |-> IF is_first THEN Continue ELSE Ev("NextRecord", <<>>)]
             ELSE [r |-> [r EXCEPT !.pending_consume = 1],
                   out |-> Ev("InvalidFormat", <<buf[1]>>)]
        ELSE IF first_non_ws > 0
        THEN [r |-> [r EXCEPT !.pending_consume = first_non_ws], out |-> Continue]
        ELSE [r |-> [r EXCEPT !.pending_consume = Len(buf)], out |-> Continue]

\* FastqStart accepting '@' without resetting seq_len and qual_len
FastqStartNoReset(buf, r) ==
    LET first_non_ws == Memchr(Bytes \ {LF, CR}, buf)
        is_first == r.first_record
    IN  IF first_non_ws = 0
        THEN IF buf[1] = AT
             THEN [r |-> [r EXCEPT !.first_record = FALSE, !.state = "Id",
                                   !.pending_consume = 1],
                   out |-> IF is_first THEN Continue ELSE Ev("NextRecord", <<>>)]
             ELSE [r |-> r, out |-> Ev("InvalidFormat", <<buf[1]>>)]
        ELSE IF first_non_ws > 0
        THEN [r |-> [r EXCEPT !.pending_consume = first_non_ws], out |-> Continue]
        ELSE [r |-> [r EXCEPT !.pending_consume = Len(buf)], out |-> Continue]

\* FastqStart returning no NextRecord for any record, as for the first one
FastqStartSilent(buf, r) ==
    LET first_non_ws == Memchr(Bytes \ {LF, CR}, buf)
    IN  IF first_non_ws = 0
        THEN IF buf[1] = AT
             THEN [r |-> [r EXCEPT !.first_record = FALSE, !.state = "Id",
                                   !.pending_consume = 1, !.seq_len = 0, !.qual_len = 0],
                   out |-> Continue]
             ELSE [r |-> r, out |-> Ev("InvalidFormat", <<buf[1]>>)]
        ELSE IF first_non_ws > 0
        THEN [r |-> [r EXCEPT !.pending_consume = first_non_ws], out |-> Continue]
        ELSE [r |-> [r EXCEPT !.pending_consume = Len(buf)], out |-> Continue]

FastqStart(buf, r) ==
    LET first_non_ws == Memchr(Bytes \ {LF, CR}, buf)
        is_first == r.first_record
    IN  IF first_non_ws = 0
        THEN IF buf[1] = AT
             THEN [r |-> [r EXCEPT !.first_record = FALSE, !.state = "Id",
                                   !.pending_consume = 1, !.seq_len = 0, !.qual_len = 0],
                   out |-> IF is_first THEN Continue ELSE Ev("NextRecord", <<>>)]
             ELSE [r |-> r, out |-> Ev("InvalidFormat", <<buf[1]>>)]
        ELSE IF first_non_ws > 0
        THEN [r |-> [r EXCEPT !.pending_consume = first_non_ws], out |-> Continue]
        ELSE [r |-> [r EXCEPT !.pending_consume = Len(buf)], out |-> Continue]

FastqId(buf, r) ==
    LET newline_pos == Memchr({LF}, buf)
        end == IF newline_pos > 0 /\ buf[newline_pos] = CR
               THEN newline_pos - 1 ELSE newline_pos
    IN  IF newline_pos >= 0
        THEN [r |-> [r EXCEPT !.state = "Sequence", !.pending_consume = newline_pos + 1],
              out |-> IF end > 0 THEN Ev("IdChunk", Slice(buf, end)) ELSE Continue]
        ELSE [r |-> [r EXCEPT !.pending_consume = Len(buf)],
              out |-> Ev("IdChunk", buf)]

\* FastqSequence scheduling two bytes for a CR whether or not the window
\* holds the LF after it (no `buf_len > 1 && buf[1] == b'\n'` test)
FastqSequenceCrPair(buf, r) ==
    LET newline_pos == Memchr({LF}, buf)
        found == Memchr({LF, CR, PLUS}, buf)
        chunk_end == IF found >= 0 THEN found ELSE Len(buf)
    IN  IF buf[1] = PLUS
        THEN [r |-> [r EXCEPT !.pending_consume =
                        IF newline_pos >= 0 THEN newline_pos + 1 ELSE Len(buf),
                              !.state = "Plus"],
              out |-> Continue]
        ELSE IF buf[1] = LF
        THEN [r |-> [r EXCEPT !.pending_consume = 1], out |-> Continue]
        ELSE IF buf[1] = CR
        THEN [r |-> [r EXCEPT !.pending_consume = 2], out |-> Continue]
        ELSE IF chunk_end = 0
        THEN [r |-> [r EXCEPT !.pending_consume = 1], out |-> Continue]
        ELSE [r |-> [r EXCEPT !.pending_consume = chunk_end,
                              !.seq_len = r.seq_len + chunk_end],
              out |-> Ev("SeqChunk", Slice(buf, chunk_end))]

FastqSequence(buf, r) ==
    LET newline_pos == Memchr({LF}, buf)
        found == Memchr({LF, CR, PLUS}, buf)
        chunk_end == IF found >= 0 THEN found ELSE Len(buf)
    IN  IF buf[1] = PLUS
        THEN [r |-> [r EXCEPT !.pending_consume =
                        IF newline_pos >= 0 THEN newline_pos + 1 ELSE Len(buf),
                              !.state = "Plus"],
              out |-> Continue]
        ELSE IF buf[1] = LF
        THEN [r |-> [r EXCEPT !.pending_consume = 1], out |-> Continue]
        ELSE IF buf[1] = CR
        THEN [r |-> [r EXCEPT !.pending_consume =
                        IF Len(buf) > 1 /\ buf[2] = LF THEN 2 ELSE 1],
              out |-> Continue]
        ELSE IF chunk_end = 0
        THEN [r |-> [r EXCEPT !.pending_consume = 1], out |-> Continue]
        ELSE [r |-> [r EXCEPT !.pending_consume = chunk_end,
                              !.seq_len = r.seq_len + chunk_end],
              out |-> Ev("SeqChunk", Slice(buf, chunk_end))]

\* FastqPlus waiting in Plus for a line terminator: on any other first byte
\* it consumes nothing and does not change the state
FastqPlusWaits(buf, r) ==
    IF buf[1] = LF
    THEN [r |-> [r EXCEPT !.pending_consume = 1, !.state = "Quality"], out |-> Continue]
    ELSE IF buf[1] = CR
    THEN [r |-> [r EXCEPT !.pending_consume =
                    IF Len(buf) > 1 /\ buf[2] = LF THEN 2 ELSE 1,
                          !.state = "Quality"],
          out |-> Continue]
    ELSE [r |-> r, out |-> Continue]

FastqPlus(buf, r) ==
    IF buf[1] = LF
    THEN [r |-> [r EXCEPT !.pending_consume = 1, !.state = "Quality"], out |-> Continue]
    ELSE IF buf[1] = CR
    THEN [r |-> [r EXCEPT !.pending_consume =
                    IF Len(buf) > 1 /\ buf[2] = LF THEN 2 ELSE 1,
                          !.state = "Quality"],
          out |-> Continue]
    ELSE [r |-> [r EXCEPT !.state = "Quality"], out |-> Continue]

\* FastqQuality capping the chunk only when the window holds a line
\* terminator (`None => buf_len` in place of `None => buf_len.min(remaining)`)
FastqQualityUncappedWindow(buf, r) ==
    LET remaining == IF r.seq_len >= r.qual_len THEN r.seq_len - r.qual_len ELSE 0
        newline_pos == Memchr({LF, CR}, buf)
        chunk_end == IF newline_pos >= 0 THEN Min(newline_pos, remaining)
                     ELSE Len(buf)
        qual_len == r.qual_len + chunk_end
    IN  IF buf[1] = LF
        THEN [r |-> [r EXCEPT !.pending_consume = 1], out |-> Continue]
        ELSE IF buf[1] = CR
        THEN [r |-> [r EXCEPT !.pending_consume =
                        IF Len(buf) > 1 /\ buf[2] = LF THEN 2 ELSE 1],
              out |-> Continue]
        ELSE IF remaining = 0
        THEN [r |-> [r EXCEPT !.state = "Start"], out |-> Continue]
        ELSE IF chunk_end = 0
        THEN [r |-> [r EXCEPT !.pending_consume = 1], out |-> Continue]
        ELSE [r |-> [r EXCEPT !.pending_consume = chunk_end,
                              !.qual_len = qual_len,
                              !.state = IF qual_len >= r.seq_len THEN "Start" ELSE "Quality"],
              out |-> Ev("QualChunk", Slice(buf, chunk_end))]

\* FastqQuality taking a '@' at the start of the window for the next record's
\* marker, whatever `remaining` is
FastqQualityMarkerEnds(buf, r) ==
    LET remaining == IF r.seq_len >= r.qual_len THEN r.seq_len - r.qual_len ELSE 0
        newline_pos == Memchr({LF, CR}, buf)
        chunk_end == IF newline_pos >= 0 THEN Min(newline_pos, remaining)
                     ELSE Min(Len(buf), remaining)
        qual_len == r.qual_len + chunk_end
    IN  IF buf[1] = LF
        THEN [r |-> [r EXCEPT !.pending_consume = 1], out |-> Continue]
        ELSE IF buf[1] = CR
        THEN [r |-> [r EXCEPT !.pending_consume =
                        IF Len(buf) > 1 /\ buf[2] = LF THEN 2 ELSE 1],
              out |-> Continue]
        ELSE IF remaining = 0 \/ buf[1] = AT
        THEN [r |-> [r EXCEPT !.state = "Start"], out |-> Continue]
        ELSE IF chunk_end = 0
        THEN [r |-> [r EXCEPT !.pending_consume = 1], out |-> Continue]
        ELSE [r |-> [r EXCEPT !.pending_consume = chunk_end,
                              !.qual_len = qual_len,
                              !.state = IF qual_len >= r.seq_len THEN "Start" ELSE "Quality"],
              out |-> Ev("QualChunk", Slice(buf, chunk_end))]

\* FastqQuality without the cap at `remaining`: a chunk runs to the line end
FastqQualityUncapped(buf, r) ==
    LET remaining == IF r.seq_len >= r.qual_len THEN r.seq_len - r.qual_len ELSE 0
        newline_pos == Memchr({LF, CR}, buf)
        chunk_end == IF newline_pos >= 0 THEN newline_pos ELSE Len(buf)
        qual_len == r.qual_len + chunk_end
    IN  IF buf[1] = LF
        THEN [r |-> [r EXCEPT !.pending_consume = 1], out |-> Continue]
        ELSE IF buf[1] = CR
        THEN [r |-> [r EXCEPT !.pending_consume =
                        IF Len(buf) > 1 /\ buf[2] = LF THEN 2 ELSE 1],
              out |-> Continue]
        ELSE IF remaining = 0
        THEN [r |-> [r EXCEPT !.state = "Start"], out |-> Continue]
        ELSE IF chunk_end = 0
        THEN [r |-> [r EXCEPT !.pending_consume = 1], out |-> Continue]
        ELSE [r |-> [r EXCEPT !.pending_consume = chunk_end,
                              !.qual_len = qual_len,
                              !.state = IF qual_len >= r.seq_len THEN "Start" ELSE "Quality"],
              out |-> Ev("QualChunk", Slice(buf, chunk_end))]

FastqQuality(buf, r) ==
    LET remaining == IF r.seq_len >= r.qual_len THEN r.seq_len - r.qual_len ELSE 0
        newline_pos == Memchr({LF, CR}, buf)
        chunk_end == IF newline_pos >= 0 THEN Min(newline_pos, remaining)
                     ELSE Min(Len(buf), remaining)
        qual_len == r.qual_len + chunk_end
    IN  IF buf[1] = LF
        THEN [r |-> [r EXCEPT !.pending_consume = 1], out |-> Continue]
        ELSE IF buf[1] = CR
        THEN [r |-> [r EXCEPT !.pending_consume =
                        IF Len(buf) > 1 /\ buf[2] = LF THEN 2 ELSE 1],
              out |-> Continue]
        ELSE IF remaining = 0
        THEN [r |-> [r EXCEPT !.state = "Start"], out |-> Continue]
        ELSE IF chunk_end = 0
        THEN [r |-> [r EXCEPT !.pending_consume = 1], out |-> Continue]
        ELSE [r |-> [r EXCEPT !.pending_consume = chunk_end,
                              !.qual_len = qual_len,
                              !.state = IF qual_len >= r.seq_len THEN "Start" ELSE "Quality"],
              out |-> Ev("QualChunk", Slice(buf, chunk_end))]

\* one iteration of FastqReader::next_event's loop, the source not failing
FastqIter(inp, c, r0) ==
    LET r == FillBuf(inp, c, ConsumePending(r0))
        buf == Window(inp, r)
    IN  IF buf = <<>> THEN [r |-> r, out |-> EndOfStream]
        ELSE IF r.state = "Start" THEN FastqStart(buf, r)
        ELSE IF r.state = "Id" THEN FastqId(buf, r)
        ELSE IF r.state = "Sequence" THEN FastqSequence(buf, r)
        ELSE IF r.state = "Plus" THEN FastqPlus(buf, r)
        ELSE FastqQuality(buf, r)

Iter(f, inp, c, r) == IF f = "fasta" THEN FastaIter(inp, c, r) ELSE FastqIter(inp, c, r)

\* Pulling a fresh reader until the first end of stream or error: the
\* results of the pulls, in order (the last one is the end or the error).
RECURSIVE RunFrom(_, _, _, _, _)
RunFrom(f, inp, c, r, evs) ==
    LET res == Iter(f, inp, c, r)
    IN  IF res.out = Continue THEN RunFrom(f, inp, c, res.r, evs)
        ELSE IF res.out.kind \in Terminal THEN Append(evs, res.out)
        ELSE RunFrom(f, inp, c, res.r, Append(evs, res.out))

Run(f, inp, c) == RunFrom(f, inp, c, NewReader, <<>>)

\* ----------------------------------------------------------------- inputs
FastaSamples ==
    { <<GT, ByteA, ByteA, LF, ByteA, ByteA, LF, ByteA, LF>>,
      <<GT, ByteA, LF, ByteA, LF, GT, ByteA, LF, ByteA, ByteA, LF>>,
      <<GT, ByteA, LF, ByteA, ByteA, GT, ByteA, ByteA>>,
      <<GT, ByteA, CR, LF, ByteA, CR, LF, GT, ByteA, CR, LF, ByteA, ByteA, CR, LF>> }

FastaInputs == Strings({LF, CR, GT, ByteA}, MaxFastaLen) \cup FastaSamples

Eols == {<<LF>>, <<CR, LF>>}

\* the lines of a body, each followed by the line terminator
Lines(ls, eol) == Concat([i \in 1..Len(ls) |-> ls[i] \o eol])

FastqRecord(id, seqs, sep, quals, eol) ==
    <<AT>> \o id \o eol \o Lines(seqs, eol) \o <<PLUS>> \o sep \o eol \o Lines(quals, eol)

FastqIds == {<<>>, <<ByteA>>}
FastqSeqBodies == {<< <<ByteA>> >>, << <<ByteA, ByteA>> >>, << <<ByteA>>, <<ByteA>> >>}
FastqSeps == {<<>>, <<ByteA>>}
FastqQualBodies ==
    {<< <<ByteA>> >>, << <<ByteA, ByteA>> >>, << <<ByteA>>, <<ByteA>> >>,
     << <<AT, ByteA>> >>, << <<PLUS, ByteA>> >>, << <<ByteA, ByteA, ByteA>> >>}

FastqRecords(eol) ==
    {FastqRecord(id, seqs, sep, quals, eol) :
        id \in FastqIds, seqs \in FastqSeqBodies, sep \in FastqSeps, quals \in FastqQualBodies}

SimpleRecord(eol) == FastqRecord(<<ByteA>>, << <<ByteA>> >>, <<>>, << <<ByteA>> >>, eol)

\* one record, or one record followed by a simple one, in LF or CRLF, and
\* every truncation of such a document
FastqDocs ==
    UNION {{r1 \o r2 : r1 \in FastqRecords(eol), r2 \in {<<>>, SimpleRecord(eol)}} : eol \in Eols}

\* a record with an empty identifier and no bases, followed by a quality line
NoBasesRecord == <<AT, LF, PLUS, LF, ByteA, LF>>

FastqInputs ==
    Strings({LF, CR, AT, PLUS, ByteA}, MaxFastqLen)
      \cup UNION {Prefixes(d) : d \in FastqDocs}
      \cup Prefixes(NoBasesRecord)

Caps == (1..MaxCap) \cup {BigCap}

\* ------------------------------------------------------------------ state
VARIABLES fmt, input, cap, ioLeft, pc, events, retries, at_pull, pos, filled, pending_consume, state, seq_len, qual_len, first_record

vars == <<fmt, input, cap, ioLeft, pc, events, retries, at_pull, pos, filled, pending_consume, state, seq_len, qual_len, first_record>>

Reader ==
    [pos |-> pos, filled |-> filled, pending_consume |-> pending_consume, state |-> state,
     seq_len |-> seq_len, qual_len |-> qual_len, first_record |-> first_record]

\* the fields of the parser a caller can tell apart between two pulls
Fields ==
    [state |-> state, seq_len |-> seq_len, qual_len |-> qual_len, first_record |-> first_record]

\* at_pull is a history variable: the Fields at the call of the pull that is
\* running or has last returned
InitReader ==
    /\ at_pull = [state |-> "Start", seq_len |-> 0, qual_len |-> 0, first_record |-> TRUE]
    /\ pos = 0 /\ filled = 0 /\ pending_consume = 0 /\ state = "Start"
    /\ seq_len = 0 /\ qual_len = 0 /\ first_record = TRUE
    /\ pc = "idle" /\ events = <<>> /\ retries = 0

Init ==
    /\ \/ fmt = "fasta" /\ input \in FastaInputs
       \/ fmt = "fastq" /\ input \in FastqInputs
    /\ cap \in Caps
    /\ ioLeft = 0
    /\ InitReader

LastKind == IF events = <<>> THEN "None" ELSE events[Len(events)].kind

\* the caller pulls again after an end of stream or an error at most MaxRetries times
MayIterate == pc = "idle" /\ LastKind \in Terminal => retries < MaxRetries

\* the reader after the iteration, and the pull's result if the iteration returns
Commit(res) ==
    /\ pos' = res.r.pos
    /\ filled' = res.r.filled
    /\ pending_consume' = res.r.pending_consume
    /\ state' = res.r.state
    /\ seq_len' = res.r.seq_len
    /\ qual_len' = res.r.qual_len
    /\ first_record' = res.r.first_record
    /\ pc' = IF res.out = Continue THEN "loop" ELSE "idle"
    /\ events' = IF res.out = Continue THEN events ELSE Append(events, res.out)
    /\ retries' = IF pc = "idle" /\ LastKind \in Terminal THEN retries + 1 ELSE retries
    /\ at_pull' = IF pc = "idle" THEN Fields ELSE at_pull
    /\ UNCHANGED <<fmt, input, cap>>

\* the reader after `consume` and a successful fill_buf, and the window it sees
Filled == FillBuf(input, cap, ConsumePending(Reader))
Buf == Window(input, Filled)

\* Ok(b) if b.is_empty() => return None
FastaEnd ==
    /\ fmt = "fasta" /\ MayIterate
    /\ Buf = <<>>
    /\ Commit([r |-> Filled, out |-> EndOfStream])
    /\ UNCHANGED ioLeft

FastaStartArm ==
    /\ fmt = "fasta" /\ MayIterate
    /\ Buf # <<>> /\ Filled.state = "Start"
    /\ Commit(FastaStart(Buf, Filled))
    /\ UNCHANGED ioLeft

FastaIdArm ==
    /\ fmt = "fasta" /\ MayIterate
    /\ Buf # <<>> /\ Filled.state = "Id"
    /\ Commit(FastaId(Buf, Filled))
    /\ UNCHANGED ioLeft

FastaSequenceArm ==
    /\ fmt = "fasta" /\ MayIterate
    /\ Buf # <<>> /\ Filled.state = "Sequence"
    /\ Commit(FastaSequence(Buf, Filled))
    /\ UNCHANGED ioLeft

\* Err(e) => return Some(Err(e.into())): the source fails when the BufReader,
\* its buffer empty, reads from it
FastaFillFails ==
    /\ fmt = "fasta" /\ MayIterate
    /\ ioLeft > 0
    /\ ConsumePending(Reader).pos = filled
    /\ Commit([r |-> ConsumePending(Reader), out |-> IoError])
    /\ ioLeft' = ioLeft - 1

\* FastqEnd reporting an input that ends inside a record as a format error
FastqEndStrict ==
    /\ fmt = "fastq" /\ MayIterate
    /\ Buf = <<>>
    /\ Commit([r |-> Filled,
               out |-> IF Filled.state = "Start" THEN EndOfStream
                       ELSE Ev("InvalidFormat", <<>>)])
    /\ UNCHANGED ioLeft

FastqEnd ==
    /\ fmt = "fastq" /\ MayIterate
    /\ Buf = <<>>
    /\ Commit([r |-> Filled, out |-> EndOfStream])
    /\ UNCHANGED ioLeft

FastqStartArm ==
    /\ fmt = "fastq" /\ MayIterate
    /\ Buf # <<>> /\ Filled.state = "Start"
    /\ Commit(FastqStart(Buf, Filled))
    /\ UNCHANGED ioLeft

FastqIdArm ==
    /\ fmt = "fastq" /\ MayIterate
    /\ Buf # <<>> /\ Filled.state = "Id"
    /\ Commit(FastqId(Buf, Filled))
    /\ UNCHANGED ioLeft

FastqSequenceArm ==
    /\ fmt = "fastq" /\ MayIterate
    /\ Buf # <<>> /\ Filled.state = "Sequence"
    /\ Commit(FastqSequence(Buf, Filled))
    /\ UNCHANGED ioLeft

FastqPlusArm ==
    /\ fmt = "fastq" /\ MayIterate
    /\ Buf # <<>> /\ Filled.state = "Plus"
    /\ Commit(FastqPlus(Buf, Filled))
    /\ UNCHANGED ioLeft

FastqQualityArm ==
    /\ fmt = "fastq" /\ MayIterate
    /\ Buf # <<>> /\ Filled.state = "Quality"
    /\ Commit(FastqQuality(Buf, Filled))
    /\ UNCHANGED ioLeft

\* FastqFillFails putting the parser back to Start when the fill fails
FastqFillFailsResets ==
    /\ fmt = "fastq" /\ MayIterate
    /\ ioLeft > 0
    /\ ConsumePending(Reader).pos = filled
    /\ Commit([r |-> [ConsumePending(Reader) EXCEPT !.state = "Start"], out |-> IoError])
    /\ ioLeft' = ioLeft - 1

FastqFillFails ==
    /\ fmt = "fastq" /\ MayIterate
    /\ ioLeft > 0
    /\ ConsumePending(Reader).pos = filled
    /\ Commit([r |-> ConsumePending(Reader), out |-> IoError])
    /\ ioLeft' = ioLeft - 1

Next ==
    \/ FastaEnd \/ FastaStartArm \/ FastaIdArm \/ FastaSequenceArm
    \/ FastqEnd \/ FastqStartArm \/ FastqIdArm \/ FastqSequenceArm
    \/ FastqPlusArm \/ FastqQualityArm

Spec == Init /\ [][Next]_vars

\* the same readers over a byte source that may fail
FastaIoInputs == Strings({LF, GT, ByteA}, MaxIoLen)
FastqIoInputs == Strings({LF, AT, ByteA}, MaxIoLen) \cup Prefixes(SimpleRecord(<<LF>>) \o SimpleRecord(<<LF>>))

InitIo ==
    /\ \/ fmt = "fasta" /\ input \in FastaIoInputs
       \/ fmt = "fastq" /\ input \in FastqIoInputs
    /\ cap \in Caps
    /\ ioLeft = MaxIoFailures
    /\ InitReader

NextIo == Next \/ FastaFillFails \/ FastqFillFails

SpecIo == InitIo /\ [][NextIo]_vars

\* ------------------------------------------------- reading the event stream
IsEvent(e) == e.kind \notin Terminal
Done == \E i \in 1..Len(events) : events[i].kind \in Terminal

\* the results up to and including the first end of stream or error
UpToTerminal(evs) ==
    IF \E i \in 1..Len(evs) : evs[i].kind \in Terminal
    THEN SubSeq(evs, 1, CHOOSE i \in 1..Len(evs) :
                            evs[i].kind \in Terminal /\ \A j \in 1..(i-1) : evs[j].kind \notin Terminal)
    ELSE evs

FirstRun == UpToTerminal(events)

EmptyRecord == [id |-> <<>>, seq |-> <<>>, qual |-> <<>>]

\* The records of a stream, as a caller assembles them: a record-start event
\* (StartRecord, NextRecord) opens a new record, a chunk is appended to the
\* field of the open record.  The first element is what precedes the first
\* record-start event.
RECURSIVE Assemble(_, _, _)
Assemble(evs, i, recs) ==
    IF i > Len(evs) THEN recs
    ELSE LET e == evs[i]
             n == Len(recs)
         IN  IF e.kind \in {"StartRecord", "NextRecord"}
             THEN Assemble(evs, i + 1, Append(recs, EmptyRecord))
             ELSE IF e.kind = "IdChunk"
             THEN Assemble(evs, i + 1, [recs EXCEPT ![n].id = @ \o e.payload])
             ELSE IF e.kind = "SeqChunk"
             THEN Assemble(evs, i + 1, [recs EXCEPT ![n].seq = @ \o e.payload])
             ELSE IF e.kind = "QualChunk"
             THEN Assemble(evs, i + 1, [recs EXCEPT ![n].qual = @ \o e.payload])
             ELSE Assemble(evs, i + 1, recs)

Records(evs) == Assemble(evs, 1, <<EmptyRecord>>)

Outcome(evs) == IF evs = <<>> THEN "None" ELSE evs[Len(evs)].kind

RECURSIVE SumLen(_, _)
SumLen(recs, field) ==
    IF recs = <<>> THEN 0 ELSE Len(Head(recs)[field]) + SumLen(Tail(recs), field)

\* what tests/integration_test.rs counts: records, identifiers, total lengths
Stats(evs) ==
    LET recs == Records(evs)
    IN  [count |-> Len(recs), ids |-> [i \in 1..Len(recs) |-> recs[i].id],
         seq |-> SumLen(recs, "seq"), qual |-> SumLen(recs, "qual")]

Count(evs, k) == Cardinality({i \in 1..Len(evs) : evs[i].kind = k})

IsPrefix(s, t) == Len(s) <= Len(t) /\ s = SubSeq(t, 1, Len(s))

Has(s, b) == \E i \in 1..Len(s) : s[i] = b

\* ------------------------------------------------------------------ C1
\* C1 (as claimed): for every FASTA input, a reader of any capacity that has
\* been pulled to the end has yielded the same number of record-start events
\* and, record by record, the same identifier and sequence bytes as a reader
\* whose buffer holds the whole input.
C1_FastaBufferSizeInvariance ==
    (fmt = "fasta" /\ Done) => Records(FirstRun) = Records(Run("fasta", input, BigCap))

\* ------------------------------------------------------------------ C2
\* C2 (as claimed): for every FASTQ input, a reader of any capacity that has
\* been pulled to the end has had the same outcome (end or error) and, record
\* by record, the same identifier, sequence and quality bytes as a reader
\* whose buffer holds the whole input.
C2_FastqBufferSizeInvariance ==
    (fmt = "fastq" /\ Done) =>
        /\ Outcome(FirstRun) = Outcome(Run("fastq", input, BigCap))
        /\ Records(FirstRun) = Records(Run("fastq", input, BigCap))

\* ------------------------------------------------------------------ C3
\* a document whose every line ends in CRLF, and the same document with LF
IsCrlfDoc(inp) ==
    /\ Has(inp, LF)
    /\ \A i \in 1..Len(inp) : inp[i] = LF => (i > 1 /\ inp[i-1] = CR)
    /\ \A i \in 1..Len(inp) : inp[i] = CR => (i < Len(inp) /\ inp[i+1] = LF)

RECURSIVE WithoutCr(_)
WithoutCr(inp) ==
    IF inp = <<>> THEN <<>>
    ELSE IF Head(inp) = CR THEN WithoutCr(Tail(inp))
    ELSE <<Head(inp)>> \o WithoutCr(Tail(inp))

\* C3 (as claimed): a reader of any capacity pulled to the end of a CRLF
\* document has counted the same records, identifiers, total sequence length
\* and total quality length as the same reader on the LF document.
C3_LineEndingInvariance ==
    (Done /\ IsCrlfDoc(input)) =>
        Stats(FirstRun) = Stats(Run(fmt, WithoutCr(input), cap))

\* ------------------------------------------------------------------ C4
\* C4 (as claimed): when FastqReader has reached the end of input, every
\* record of the stream has as many QualChunk bytes as SeqChunk bytes.
C4_LengthEqualityAtEnd ==
    (fmt = "fastq" /\ Outcome(events) = "End") =>
        \A i \in 1..Len(Records(events)) :
            Len(Records(events)[i].qual) = Len(Records(events)[i].seq)

\* C4 (amended): in every FastqReader stream, a record followed by a
\* NextRecord event has as many QualChunk bytes as SeqChunk bytes; the last
\* record never has more QualChunk bytes than SeqChunk bytes, and has as many
\* whenever the reader is back in state Start.
C4_LengthEquality ==
    fmt = "fastq" =>
        LET recs == Records(events)
            last == recs[Len(recs)]
        IN  /\ \A i \in 1..(Len(recs) - 1) : Len(recs[i].qual) = Len(recs[i].seq)
            /\ Len(last.qual) <= Len(last.seq)
            /\ state = "Start" => Len(last.qual) = Len(last.seq)

\* a record of two bases and two quality bytes, yielded in several chunks,
\* has been followed by NextRecord
C4_Witness ==
    /\ fmt = "fastq" /\ cap = 1
    /\ Count(events, "NextRecord") = 1
    /\ Len(Records(events)[1].seq) = 2 /\ Len(Records(events)[1].qual) = 2

\* ------------------------------------------------------------------ C5
\* the first byte of inp that is neither LF nor CR, or 0 if there is none
FirstNonBlank(inp) ==
    IF \E i \in 1..Len(inp) : inp[i] \notin {LF, CR}
    THEN inp[1 + Memchr(Bytes \ {LF, CR}, inp)]
    ELSE 0

Marker == IF fmt = "fasta" THEN GT ELSE AT

\* the first byte that is neither LF nor CR exists and is not the marker
InvalidStart == FirstNonBlank(input) \notin {0, Marker}

\* C5: if the first byte of the input that is not LF or CR is not the record
\* marker, the first pull that returns returns InvalidFormat for that byte (so
\* no event precedes it), for either reader and every capacity.
C5_InvalidInput ==
    (InvalidStart /\ events # <<>>) =>
        events[1] = Ev("InvalidFormat", <<FirstNonBlank(input)>>)

\* the error was returned after blank lines that filled whole windows
C5_Witness ==
    /\ InvalidStart /\ cap = 1 /\ fmt = "fastq"
    /\ Len(input) = 3 /\ input[1] = LF /\ input[2] = CR
    /\ events # <<>> /\ events[1].kind = "InvalidFormat"

\* ------------------------------------------------------------------ C6
\* C6 (as claimed): once a pull has returned an error, no later pull returns
\* an event.
C6_ErrorEndsStream ==
    \A i, j \in 1..Len(events) :
        (i < j /\ events[i].kind \in {"Io", "InvalidFormat"}) => ~IsEvent(events[j])
\* ------------------------------------------------------------------ C7
\* the lines of an input that ends in LF, without their terminators
RECURSIVE LinesOf(_)
LinesOf(s) ==
    IF s = <<>> THEN <<>>
    ELSE LET k == Memchr({LF}, s)
         IN  <<SubSeq(s, 1, k)>> \o LinesOf(SubSeq(s, k + 2, Len(s)))

\* an LF-terminated FASTA document: header lines start with '>', the other
\* lines hold no '>', and there is no CR
IsLfFastaDoc(inp) ==
    /\ inp # <<>> /\ inp[1] = GT /\ inp[Len(inp)] = LF
    /\ ~Has(inp, CR)
    /\ \A i \in 1..Len(LinesOf(inp)) :
          LET line == LinesOf(inp)[i]
          IN  (line # <<>> /\ line[1] # GT) => ~Has(line, GT)

\* the events the claim names for the lines of a document; emptyId says
\* whether an empty identifier line is expected to yield an (empty) IdChunk
RECURSIVE FastaExpected(_, _)
FastaExpected(lines, emptyId) ==
    IF lines = <<>> THEN <<>>
    ELSE LET line == Head(lines)
             evs == IF line = <<>> THEN <<>>
                    ELSE IF line[1] = GT
                    THEN <<Ev("StartRecord", <<>>)>> \o
                         (IF Len(line) > 1 \/ emptyId THEN <<Ev("IdChunk", Tail(line))>> ELSE <<>>)
                    ELSE <<Ev("SeqChunk", line)>>
         IN  evs \o FastaExpected(Tail(lines), emptyId)

FastaFollows(emptyId) ==
    (fmt = "fasta" /\ cap >= Len(input) /\ IsLfFastaDoc(input)) =>
        LET want == FastaExpected(LinesOf(input), emptyId) \o <<EndOfStream>>
        IN  /\ IsPrefix(FirstRun, want)
            /\ Done => FirstRun = want

\* C7 (as claimed): for an LF-terminated FASTA document that fits in one
\* window the stream is, line by line, StartRecord and one IdChunk holding the
\* identifier for a header line (also an empty one), one SeqChunk for a
\* non-empty sequence line, then end of stream.
C7_FastaEventSequenceAnyId == FastaFollows(TRUE)

\* C7 (amended): the same, except that a header line with an empty identifier
\* yields StartRecord and no IdChunk.
C7_FastaEventSequence == FastaFollows(FALSE)

\* two records, the second with a sequence of two bases, read to the end
C7_Witness ==
    /\ fmt = "fasta" /\ cap >= Len(input) /\ IsLfFastaDoc(input)
    /\ Outcome(events) = "End"
    /\ Count(events, "StartRecord") = 2 /\ Count(events, "IdChunk") = 2
    /\ Count(events, "SeqChunk") = 2

\* ------------------------------------------------------------------ C8
FastqExpected(id, seqs, quals) ==
    <<Ev("IdChunk", id)>> \o [i \in 1..Len(seqs) |-> Ev("SeqChunk", seqs[i])]
                          \o [i \in 1..Len(quals) |-> Ev("QualChunk", quals[i])]

\* well-formed FASTQ documents of one and of two records (an identifier, a
\* sequence, a separator line with or without text, as many quality bytes as
\* bases), each with its record count and the events the claim names
WellFormedOne(eol) ==
    {[doc |-> FastqRecord(<<ByteA>>, t[1], t[2], t[3], eol), n |-> 1,
      evs |-> FastqExpected(<<ByteA>>, t[1], t[3])] :
        t \in {u \in FastqSeqBodies \X FastqSeps \X FastqQualBodies :
                  Len(Concat(u[3])) = Len(Concat(u[1]))}}

WellFormedTwo(eol) ==
    {[doc |-> w.doc \o SimpleRecord(eol), n |-> 2,
      evs |-> w.evs \o <<Ev("NextRecord", <<>>)>>
                    \o FastqExpected(<<ByteA>>, << <<ByteA>> >>, << <<ByteA>> >>)] :
        w \in WellFormedOne(eol)}

WellFormed == UNION {WellFormedOne(eol) \cup WellFormedTwo(eol) : eol \in Eols}

\* C8 (as claimed), for well-formed documents: the first event of the
\* FastqReader stream is not NextRecord; the stream of a document of n records
\* holds n-1 NextRecord events, whatever the capacity; and when the document
\* fits in one window the stream is IdChunk, SeqChunk per sequence line,
\* QualChunk per quality line for each record, NextRecord between the
\* records, then end of stream.
C8_FastqEventSequence ==
    fmt = "fastq" =>
        \A w \in WellFormed :
            w.doc = input =>
                /\ events # <<>> => events[1].kind # "NextRecord"
                /\ Done => Count(FirstRun, "NextRecord") = w.n - 1
                /\ (Done /\ cap >= Len(input)) => FirstRun = w.evs \o <<EndOfStream>>

\* ------------------------------------------------------------------ C9
\* C9: no SeqChunk and no QualChunk payload, of either reader, holds a
\* line-feed or a carriage-return byte.
C9_NoTerminatorInChunk ==
    \A i \in 1..Len(events) :
        events[i].kind \in {"SeqChunk", "QualChunk"} =>
            ~Has(events[i].payload, LF) /\ ~Has(events[i].payload, CR)

\* a chunk has just been returned whose window went on with a CR
C9_Witness ==
    /\ pc = "idle" /\ Outcome(events) \in {"SeqChunk", "QualChunk"}
    /\ pos + pending_consume < filled
    /\ input[pos + pending_consume + 1] = CR

\* ------------------------------------------------------------------ C10
\* C10 (as claimed): no IdChunk payload holds a line-feed byte, and none
\* holds the carriage-return byte of a CRLF pair.  (A chunk just returned is
\* the bytes input[pos+1 .. pos+Len(payload)]; the first LF after a header's
\* marker ends the identifier line.)
C10_IdChunkNormalized ==
    (pc = "idle" /\ Outcome(events) = "IdChunk") =>
        LET payload == events[Len(events)].payload
        IN  /\ ~Has(payload, LF)
            /\ \A k \in 1..Len(payload) :
                  ~(/\ payload[k] = CR
                    /\ pos + k < Len(input)
                    /\ input[pos + k + 1] = LF)

\* ------------------------------------------------------------------ C11
\* the 1-based index of the first byte of inp at or after index k that lies
\* in S, or 0 if there is none
IndexFrom(S, inp, k) ==
    IF \E i \in k..Len(inp) : inp[i] \in S
    THEN CHOOSE i \in k..Len(inp) : inp[i] \in S /\ \A j \in k..(i-1) : inp[j] \notin S
    ELSE 0

IsChunk(e) == e.kind \in {"IdChunk", "SeqChunk", "QualChunk"}

\* The separator line of the first record of an input that starts with '@':
\* the header line ends at the first LF, the sequence body runs to the first
\* '+' after it, and the separator line runs from that '+' to the next LF
\* (or to the end of the input).  0 if the input has no such line.
SepStart(inp) ==
    IF IndexFrom({LF}, inp, 1) = 0 THEN 0
    ELSE IndexFrom({PLUS}, inp, IndexFrom({LF}, inp, 1) + 1)

SepEnd(inp) ==
    IF SepStart(inp) = 0 THEN 0
    ELSE IF IndexFrom({LF}, inp, SepStart(inp)) = 0 THEN Len(inp)
    ELSE IndexFrom({LF}, inp, SepStart(inp))

\* C11 (as claimed): whatever the capacity, a chunk FastqReader has just
\* returned (the bytes input[pos+1 .. pos+Len(payload)]) holds no byte of the
\* separator line of the first record.
C11_SeparatorDiscarded ==
    (/\ fmt = "fastq" /\ input # <<>> /\ input[1] = AT /\ SepStart(input) > 0
     /\ pc = "idle" /\ events # <<>> /\ IsChunk(events[Len(events)])) =>
        \A k \in 1..Len(events[Len(events)].payload) :
            ~(SepStart(input) <= pos + k /\ pos + k <= SepEnd(input))

\* ------------------------------------------------------------------ C12
\* C12: in FastqReader qual_len never exceeds seq_len; a QualChunk just
\* returned is no longer than seq_len - qual_len was when the pull was called;
\* after it the reader is in Start if qual_len has reached seq_len and still
\* in Quality otherwise; and the reader is in Start only with
\* qual_len = seq_len.
C12_QualityCap ==
    fmt = "fastq" =>
        /\ qual_len <= seq_len
        /\ state = "Start" => qual_len = seq_len
        /\ (pc = "idle" /\ Outcome(events) = "QualChunk") =>
              /\ Len(events[Len(events)].payload) <= at_pull.seq_len - at_pull.qual_len
              /\ state = IF qual_len = seq_len THEN "Start" ELSE "Quality"

\* a QualChunk was cut at the cap: the quality line goes on after it
C12_Witness ==
    /\ fmt = "fastq" /\ pc = "idle" /\ Outcome(events) = "QualChunk"
    /\ state = "Start" /\ seq_len = 2
    /\ pos + pending_consume < Len(input)
    /\ input[pos + pending_consume + 1] = ByteA

\* ------------------------------------------------------------------ C13
\* the separator line of the first record is '+' alone
BareSeparator(inp) ==
    /\ SepStart(inp) > 0 /\ SepStart(inp) < Len(inp)
    /\ inp[SepStart(inp) + 1] \in {LF, CR}

\* C13: a pull called in state Quality with qual_len < seq_len returns a
\* QualChunk or end of stream, never a record boundary, another chunk or an
\* error.  And for a well-formed document (as many quality bytes as bases,
\* the quality lines wrapped like or unlike the sequence lines, or starting
\* with '@' or '+') whose separator line is '+' alone or lies in a window
\* with the whole input, the reader pulled to the end has yielded, record by
\* record, the sequence and the whole quality block, and ended without error.
C13_WrappedQuality ==
    fmt = "fastq" =>
        /\ (/\ pc = "idle" /\ events # <<>>
            /\ at_pull.state = "Quality" /\ at_pull.qual_len < at_pull.seq_len) =>
               Outcome(events) \in {"QualChunk", "End"}
        /\ \A w \in WellFormed :
              (w.doc = input /\ Done /\ (BareSeparator(input) \/ cap >= Len(input))) =>
                  /\ Outcome(FirstRun) = "End"
                  /\ Len(Records(FirstRun)) = w.n
                  /\ \A i \in 1..w.n :
                        /\ Records(FirstRun)[i].seq = Records(w.evs)[i].seq
                        /\ Records(FirstRun)[i].qual = Records(w.evs)[i].qual

\* a quality line starting with '@' was yielded byte by byte, and the next
\* record was read after it
C13_Witness ==
    /\ fmt = "fastq" /\ cap = 1 /\ Outcome(events) = "End"
    /\ \E w \in WellFormed : w.doc = input /\ w.n = 2
    /\ \E i \in 1..Len(events) :
          events[i].kind = "QualChunk" /\ events[i].payload = <<AT>>

\* ------------------------------------------------------------------ C14
\* The records the claim describes for a FASTA input without CR, byte by
\* byte: in a sequence body every '>' opens a new record, LF is dropped and
\* any other byte is a base; in a header line the bytes up to the LF are the
\* identifier.
RECURSIVE MarkerParse(_, _, _, _)
MarkerParse(inp, i, inId, recs) ==
    IF i > Len(inp) THEN recs
    ELSE LET n == Len(recs)
         IN  IF inId
             THEN IF inp[i] = LF THEN MarkerParse(inp, i + 1, FALSE, recs)
                  ELSE MarkerParse(inp, i + 1, TRUE, [recs EXCEPT ![n].id = Append(@, inp[i])])
             ELSE IF inp[i] = GT THEN MarkerParse(inp, i + 1, TRUE, Append(recs, EmptyRecord))
             ELSE IF inp[i] = LF THEN MarkerParse(inp, i + 1, FALSE, recs)
             ELSE MarkerParse(inp, i + 1, FALSE, [recs EXCEPT ![n].seq = Append(@, inp[i])])

MarkerRecords(inp) == MarkerParse(inp, 1, FALSE, <<EmptyRecord>>)

\* the claim's example `>a\nAC>GT`, with the bytes of the model
MidLineMarker == <<GT, ByteA, LF, ByteA, ByteA, GT, ByteA, ByteA>>

\* C14: no SeqChunk of FastaReader holds a '>'; for an input without CR that
\* starts with '>', the reader of any capacity pulled to the end has yielded
\* a record for every '>' of a sequence body, wherever it stands in its line,
\* the bases before it in the record before and the bytes after it up to the
\* line end as the new identifier; and the example, read in one window,
\* yields StartRecord, IdChunk(A), SeqChunk(AA), StartRecord, IdChunk(AA).
C14_MarkerAnywhere ==
    fmt = "fasta" =>
        /\ \A i \in 1..Len(events) :
              events[i].kind = "SeqChunk" => ~Has(events[i].payload, GT)
        /\ (input # <<>> /\ input[1] = GT /\ ~Has(input, CR) /\ Done) =>
              /\ Outcome(FirstRun) = "End"
              /\ Records(FirstRun) = MarkerRecords(input)
        /\ (input = MidLineMarker /\ cap >= Len(input) /\ Done) =>
              FirstRun = <<Ev("StartRecord", <<>>), Ev("IdChunk", <<ByteA>>),
                           Ev("SeqChunk", <<ByteA, ByteA>>), Ev("StartRecord", <<>>),
                           Ev("IdChunk", <<ByteA, ByteA>>), EndOfStream>>

\* the example has been read to the end through windows of two bytes
C14_Witness ==
    /\ fmt = "fasta" /\ input = MidLineMarker /\ cap = 2
    /\ Outcome(events) = "End" /\ Count(events, "StartRecord") = 2

\* ------------------------------------------------------------------ C15
\* a record cut short: the input is a proper prefix of a well-formed FASTQ
\* document, or a FASTA input that starts with '>'
Truncated ==
    IF fmt = "fasta" THEN input # <<>> /\ input[1] = GT
    ELSE \E w \in WellFormed : IsPrefix(input, w.doc) /\ input # w.doc

\* C15: an iteration whose fill returns the empty window (the source is at
\* its end) returns end of stream and leaves the parser's fields as they are,
\* in every state of either reader; and a reader pulled to the end of a
\* truncated record has returned end of stream, not an error (for FASTQ, when
\* the separator line is '+' alone or not reached, or the input fits one
\* window).
C15_EndOfInputIsEnd ==
    /\ [][Buf = <<>> =>
            /\ events' = Append(events, EndOfStream)
            /\ pc' = "idle"
            /\ Fields' = Fields]_vars
    /\ []((Done /\ Truncated /\
           (fmt = "fasta" \/ SepStart(input) = 0 \/ SepStart(input) = Len(input)
              \/ BareSeparator(input) \/ cap >= Len(input)))
          => Outcome(FirstRun) = "End")

\* the input ended inside a quality block and the pull returned end of stream
C15_Witness ==
    /\ fmt = "fastq" /\ Truncated /\ Outcome(events) = "End"
    /\ state = "Quality" /\ qual_len < seq_len /\ qual_len > 0

\* ------------------------------------------------------------------ C16
\* C16 (as claimed): a pull that has returned an I/O error has left the state
\* tag, seq_len, qual_len and first_record as they were when it was called.
C16_IoFailureLeavesParser ==
    (pc = "idle" /\ Outcome(events) = "Io") => Fields = at_pull

\* C16 (amended): the iteration in which the fill fails returns an I/O error
\* and no event and leaves the state tag, seq_len, qual_len and first_record
\* as they are; seq_len and qual_len are as they were when the pull was
\* called (the state tag and first_record may have been changed by earlier
\* iterations of the same pull).
C16_IoFailureLeavesIteration ==
    /\ [][ioLeft' # ioLeft =>
            /\ events' = Append(events, IoError)
            /\ pc' = "idle"
            /\ Fields' = Fields]_vars
    /\ []((pc = "idle" /\ Outcome(events) = "Io") =>
            /\ seq_len = at_pull.seq_len
            /\ qual_len = at_pull.qual_len)

\* the fill failed in the middle of a FASTQ sequence body
C16_Witness ==
    /\ fmt = "fastq" /\ pc = "idle" /\ Outcome(events) = "Io"
    /\ state = "Sequence" /\ seq_len = 1

\* ------------------------------------------------------------------ C17
\* the input without its leading run of LF and CR bytes
RECURSIVE StripBlank(_)
StripBlank(inp) ==
    IF inp # <<>> /\ Head(inp) \in {LF, CR} THEN StripBlank(Tail(inp)) ELSE inp

\* C17 (as claimed): a reader of any capacity pulled to the end of an input
\* that starts with a run of LF and CR bytes has had the same outcome and has
\* yielded, record by record, the same identifier, sequence and quality bytes
\* as the same reader on the input without that run.
C17_LeadingBlankSkipped ==
    (Done /\ input # <<>> /\ input[1] \in {LF, CR}) =>
        /\ Outcome(FirstRun) = Outcome(Run(fmt, StripBlank(input), cap))
        /\ Records(FirstRun) = Records(Run(fmt, StripBlank(input), cap))

\* ------------------------------------------------------------------ C18
\* the place of a chunk in a record: identifier, sequence, quality
Rank(e) == IF e.kind = "IdChunk" THEN 1 ELSE IF e.kind = "SeqChunk" THEN 2 ELSE 3

\* a record boundary event lies strictly between the pulls i and j
BoundaryBetween(i, j) ==
    \E k \in (i+1)..(j-1) : events[k].kind \in {"StartRecord", "NextRecord"}

\* C18: of two chunks FastqReader has returned with no NextRecord between
\* them, the later is not of an earlier part of the record (IdChunk, then
\* SeqChunk, then QualChunk); FastaReader has returned no IdChunk after a
\* SeqChunk without a StartRecord between them.
C18_EventOrder ==
    \A i, j \in 1..Len(events) :
        (i < j /\ IsChunk(events[i]) /\ IsChunk(events[j]) /\ ~BoundaryBetween(i, j)) =>
            Rank(events[i]) <= Rank(events[j])

\* identifier, sequence and quality of one record, NextRecord, and the
\* identifier of the next record have been returned
C18_Witness ==
    /\ fmt = "fastq" /\ Outcome(events) = "IdChunk"
    /\ Count(events, "NextRecord") = 1
    /\ Count(events, "IdChunk") >= 2 /\ Count(events, "QualChunk") >= 2

\* ------------------------------------------------------------------ C19
\* the window starts with a line terminator: LF, or CR in Sequence and
\* Quality, or the CR LF pair in Id
AtTerminator ==
    /\ Buf # <<>>
    /\ \/ state = "Id" /\ (Buf[1] = LF \/ (Len(Buf) > 1 /\ Buf[1] = CR /\ Buf[2] = LF))
       \/ state \in {"Sequence", "Quality"} /\ Buf[1] \in {LF, CR}

CurrentRecord == Records(events)[Len(Records(events))]

\* C20: in every state of FastqReader, seq_len is the number of bytes in the
\* SeqChunk payloads and qual_len the number of bytes in the QualChunk
\* payloads returned for the current record; both are 0 when a pull has just
\* returned NextRecord, and when the first record's '@' has been accepted.
C20_CountersTrackEvents ==
    fmt = "fastq" =>
        /\ seq_len = Len(CurrentRecord.seq)
        /\ qual_len = Len(CurrentRecord.qual)
        /\ (state = "Id" \/ Outcome(events) = "NextRecord") => (seq_len = 0 /\ qual_len = 0)

\* the second record's first base has been returned after a first record of
\* two bases
C20_Witness ==
    /\ fmt = "fastq" /\ pc = "idle" /\ Outcome(events) = "SeqChunk"
    /\ Count(events, "NextRecord") = 1
    /\ seq_len = 1 /\ Len(Records(events)[1].seq) = 2

\* ------------------------------------------------------------------ C21
\* The loop of next_event runs on until it returns, and the caller of the
\* claim pulls again and again: an iteration that can be taken is taken.
\* every byte string of at most MaxLiveLen bytes is an input of SpecLive
MaxLiveLen == 2

FastaLiveInputs ==
    Strings({LF, GT, ByteA}, MaxLiveLen)
      \cup Prefixes(<<GT, ByteA, CR, LF, ByteA, CR, LF, GT, CR, LF, ByteA>>)

\* a record with separator text and a wrapped quality block followed by a
\* simple record, in CRLF; and a record with an empty sequence body
FastqLiveInputs ==
    Strings({LF, AT, PLUS, ByteA}, MaxLiveLen)
      \cup Prefixes(FastqRecord(<<ByteA>>, << <<ByteA, ByteA>> >>, <<ByteA>>,
                                << <<ByteA>>, <<ByteA>> >>, <<CR, LF>>) \o SimpleRecord(<<CR, LF>>))
      \cup Prefixes(NoBasesRecord)

\* one byte per window, two, and the whole input in one window
LiveCaps == {1, 2, BigCap}

InitLive ==
    /\ \/ fmt = "fasta" /\ input \in FastaLiveInputs
       \/ fmt = "fastq" /\ input \in FastqLiveInputs
    /\ cap \in LiveCaps
    /\ ioLeft = 0
    /\ InitReader

SpecLive == InitLive /\ [][Next]_vars /\ WF_vars(Next)

\* What is left to do: three for every byte not yet consumed or scheduled
\* for consumption, plus the state changes that consume nothing and are
\* still ahead (Plus to Quality, Quality to Start).
Variant ==
    3 * (Len(input) - (pos + pending_consume))
      + (IF state = "Plus" THEN 2 ELSE IF state = "Quality" THEN 1 ELSE 0)

\* C21: every iteration that does not return lowers Variant (it schedules at
\* least one byte for consumption, or makes one of the two state changes that
\* consume nothing, which cannot follow each other more than twice); a pull
\* that is in its loop returns; and repeated pulls on a source that does not
\* fail return end of stream or an error.
C21_ProgressAndTermination ==
    /\ [][pc' = "loop" =>
            /\ Variant' < Variant
            /\ Variant' >= 0
            /\ (pending_consume' > 0 \/ state' # state)]_vars
    /\ (pc = "loop" ~> pc = "idle")
    /\ <>Done

\* the record has no bases, and at the first quality byte the iteration went
\* from Quality to Start without consuming it and without returning
C21_Witness ==
    /\ fmt = "fastq" /\ pc = "loop" /\ state = "Start" /\ pending_consume = 0
    /\ ~first_record /\ pos < Len(input) /\ input[pos + 1] = ByteA

\* ------------------------------------------------------------------ C22
\* C22: for either reader, the byte count scheduled in pending_consume is
\* never more than the unconsumed bytes of the last window; a chunk just
\* returned is the first bytes of that window, input[pos+1 ..], and is not
\* longer than the count scheduled with it; every iteration consumes exactly
\* the count that was scheduled and the cursor never goes back, so the
\* payloads are pieces of the input that follow each other without overlap;
\* and when a pull has returned end of stream every byte has been consumed.
C22_ConsumeDiscipline ==
    /\ [](/\ pos <= filled /\ filled <= Len(input)
          /\ pending_consume <= filled - pos)
    /\ []((pc = "idle" /\ events # <<>> /\ IsChunk(events[Len(events)])) =>
            LET payload == events[Len(events)].payload
            IN  /\ Len(payload) <= pending_consume
                /\ payload = SubSeq(input, pos + 1, pos + Len(payload)))
    /\ [][pos' = pos + pending_consume]_vars
    /\ [](Outcome(events) = "End" => (pos = Len(input) /\ pending_consume = 0))

\* an identifier has been returned whose CR LF is scheduled for consumption
\* with it, and the window holds more after it
C22_Witness ==
    /\ pc = "idle" /\ Outcome(events) = "IdChunk"
    /\ pending_consume = Len(events[Len(events)].payload) + 2
    /\ pending_consume < filled - pos

\* ------------------------------------------------------------------ C23
\* C23 (as claimed): a pull that has returned InvalidFormat has left the
\* parser in Start, with the state tag, seq_len, qual_len and first_record as
\* they were when it was called.
C23_FormatErrorLeavesParser ==
    (pc = "idle" /\ Outcome(events) = "InvalidFormat") =>
        (state = "Start" /\ Fields = at_pull)

\* C23 (amended): the iteration that returns InvalidFormat runs in state
\* Start and changes none of the state tag, seq_len, qual_len and
\* first_record; the pull leaves seq_len and qual_len as they were when it
\* was called; the byte it names is the next unconsumed byte, is neither a
\* line terminator nor the marker, and is not scheduled for consumption; and
\* every later pull returns InvalidFormat for the same byte.  (The state tag
\* and first_record may have been changed by earlier iterations of the pull.)
C23_FormatErrorLeavesIteration ==
    /\ [][(Len(events') > Len(events) /\ events'[Len(events')].kind = "InvalidFormat") =>
            (state = "Start" /\ Fields' = Fields)]_vars
    /\ []((pc = "idle" /\ Outcome(events) = "InvalidFormat") =>
            /\ state = "Start"
            /\ seq_len = at_pull.seq_len /\ qual_len = at_pull.qual_len
            /\ pending_consume = 0 /\ pos < filled
            /\ events[Len(events)].payload = <<input[pos + 1]>>
            /\ input[pos + 1] \notin {LF, CR, Marker})
    /\ [](\A i, j \in 1..Len(events) :
            (i < j /\ events[i].kind = "InvalidFormat") => events[j] = events[i])

\* FastqReader has completed a record, met a surplus quality byte in Start
\* and returned InvalidFormat for it on two pulls
C23_Witness ==
    /\ fmt = "fastq" /\ ~first_record /\ state = "Start"
    /\ Count(events, "QualChunk") >= 1 /\ Count(events, "InvalidFormat") >= 2
    /\ seq_len > 0 /\ qual_len = seq_len

====
